---- MODULE Spec2Model ----
(***************************************************************************)
(* ctenv: compile-time .env style configuration.                           *)
(*                                                                         *)
(* A model of `ctenv::run` (src/src/lib.rs), the function a dependency     *)
(* calls from its build script.  run() reads CARGO_PKG_NAME and OUT_DIR,   *)
(* walks up from OUT_DIR to the directory named `target`, reads            *)
(* `<parent of target>/.env`, and for every line `$crate:$key=$value`      *)
(* whose crate is the package being built writes `value` to the file       *)
(* `OUT_DIR.join(key)`.                                                    *)
(*                                                                         *)
(* Text is modelled as a sequence of characters.  A character is a TLA+    *)
(* string; most are one letter long, and the atoms "target" and ".env"     *)
(* stand for a run of letters none of the code's tests (starts_with("#"),  *)
(* splitn on ':' and '=', the line break, the path separator) can look     *)
(* inside.  A path is a sequence of components, a component a non-empty    *)
(* sequence of characters.  An Option is a sequence of length 0 or 1.      *)
(***************************************************************************)
EXTENDS Naturals, Sequences, FiniteSets

\* ------------------------------------------------------------------ bounds

\* longest configuration file, in characters, of the exhaustive input family
MaxFileLen == 5
\* most lines of a configuration file of the structured input family
MaxLines == 3
\* most components of an OUT_DIR of the path input family
MaxDepth == 3
\* how many times the build script is run in a row
MaxRuns == 2

\* ------------------------------------------------------------- characters

HASH == "#"
COLON == ":"
EQ == "="
NL == "\n"
SLASH == "/"

None == << >>
Some(x) == << x >>

\* all strings over the characters S of length at most n
StringsUpTo(S, n) == UNION { [1..k -> S] : k \in 0..n }

\* the path component `target` (lib.rs:69) and the file name `.env` (lib.rs:75)
TARGET == << "target" >>
DOTENV == << ".env" >>

\* ------------------------------------------------------------ std: strings

\* str::find: the index of the first c in s, 0 when there is none
IndexOf(s, c) ==
    IF \E k \in 1..Len(s) : s[k] = c
    THEN CHOOSE k \in 1..Len(s) : s[k] = c /\ \A j \in 1..(k - 1) : s[j] # c
    ELSE 0

\* the index of the last c in s, 0 when there is none (used by a mutant only)
LastIndexOf(s, c) ==
    IF \E k \in 1..Len(s) : s[k] = c
    THEN CHOOSE k \in 1..Len(s) : s[k] = c /\ \A j \in (k + 1)..Len(s) : s[j] # c
    ELSE 0

\* str::rsplitn(2, c) collected (used by a mutant only): splits at the last c
Splitn2AtLast(s, c) ==
    LET k == LastIndexOf(s, c)
    IN  IF k = 0 THEN << s >>
        ELSE << SubSeq(s, 1, k - 1), SubSeq(s, k + 1, Len(s)) >>

\* str::splitn(2, c) collected: the text before the first c and all the text
\* after it, or the whole text alone when it holds no c
Splitn2(s, c) ==
    LET k == IndexOf(s, c)
    IN  IF k = 0 THEN << s >>
        ELSE << SubSeq(s, 1, k - 1), SubSeq(s, k + 1, Len(s)) >>

\* str::split(c) collected
RECURSIVE SplitAll(_, _)
SplitAll(s, c) ==
    LET k == IndexOf(s, c)
    IN  IF k = 0 THEN << s >>
        ELSE << SubSeq(s, 1, k - 1) >> \o SplitAll(SubSeq(s, k + 1, Len(s)), c)

\* str::lines collected: split at line breaks, the empty piece after a final
\* line break is no line (no modelled text holds a carriage return)
Lines(s) ==
    LET parts == SplitAll(s, NL)
    IN  IF parts[Len(parts)] = << >>
        THEN SubSeq(parts, 1, Len(parts) - 1) ELSE parts

\* a mutant of StartsWithHash: the '#' is looked for at the end of the line
EndsWithHash(line) == line # << >> /\ line[Len(line)] = HASH

\* line.starts_with("#")
StartsWithHash(line) == line # << >> /\ line[1] = HASH

\* a mutant of ParseLine: the key and value are split at the last '='
ParseLineLastEq(line) ==
    LET parts == Splitn2(line, COLON)
    IN  IF Len(parts) < 2 THEN None
        ELSE LET kv == Splitn2AtLast(parts[2], EQ)
             IN  IF Len(kv) < 2 THEN None
                 ELSE Some([krate |-> parts[1], key |-> kv[1], value |-> kv[2]])

\* the closure of lib.rs:86-98: Some((krate, key, value)), or None when a
\* `?` finds no second part
ParseLine(line) ==
    LET parts == Splitn2(line, COLON)
    IN  IF Len(parts) < 2 THEN None
        ELSE LET kv == Splitn2(parts[2], EQ)
             IN  IF Len(kv) < 2 THEN None
                 ELSE Some([krate |-> parts[1], key |-> kv[1], value |-> kv[2]])

\* a mutant of IsForUs: a crate name that starts with the package's name matches
IsForUsPrefix(krate, pkg) ==
    Len(krate) >= Len(pkg) /\ SubSeq(krate, 1, Len(pkg)) = pkg

\* `krate == pkg_name`, lib.rs:102
IsForUs(krate, pkg) == krate = pkg

\* -------------------------------------------------------------- std: paths

\* Path::file_name: the last component, None for the root
FileName(p) == IF p = << >> THEN None ELSE Some(p[Len(p)])

\* PathBuf::pop: drops the last component; the root stays the root
Pop(p) == IF p = << >> THEN p ELSE SubSeq(p, 1, Len(p) - 1)

\* PathBuf::push of a relative name
Push(p, name) == Append(p, name)

\* the components of a path written as text: empty pieces between
\* separators are no components
Components(text) == SelectSeq(SplitAll(text, SLASH), LAMBDA c : c # << >>)

\* PathBuf::join as the operating system resolves it: an absolute `key`
\* replaces the base
Join(base, key) ==
    IF key # << >> /\ key[1] = SLASH THEN Components(key)
    ELSE base \o Components(key)

\* whether fs::write(p, ..) succeeds: p is not a directory and does not end
\* in a separator, and its parent is an existing directory
WriteOk(ds, key, p) ==
    /\ key # << >>
    /\ key[Len(key)] # SLASH
    /\ p # << >>
    /\ p \notin ds
    /\ Pop(p) \in ds

\* a mutant of FsWrite: a file that exists is left as it is (create_new)
FsWriteNew(fsys, p, v) ==
    [q \in DOMAIN fsys \cup {p} |-> IF q \in DOMAIN fsys THEN fsys[q] ELSE v]

\* a mutant of FsWrite: the value is appended to the file's old contents
FsAppend(fsys, p, v) ==
    [q \in DOMAIN fsys \cup {p} |->
        IF q = p THEN (IF p \in DOMAIN fsys THEN fsys[p] ELSE << >>) \o v
        ELSE fsys[q]]

\* the file system after fs::write(p, v): p is created or truncated and holds v
FsWrite(fsys, p, v) ==
    [q \in DOMAIN fsys \cup {p} |-> IF q = p THEN v ELSE fsys[q]]

\* every prefix of path p, the root and p itself included
Prefixes(p) == { SubSeq(p, 1, k) : k \in 0..Len(p) }

\* ------------------------------------------------------------------ inputs

\* the package being built
Pkg == << "f" >>
\* the build tool's usual OUT_DIR: <project>/target/<build directory>
UsualOut == << << "p" >>, TARGET, << "o" >> >>
\* the project root of UsualOut, where the top level crate keeps its .env
UsualRoot == << << "p" >> >>
\* an artifact of an earlier build, left in OUT_DIR
StalePath == UsualOut \o << << "s" >> >>
StaleValue == << "o", "l", "d" >>

\* exhaustive family: every file of at most MaxFileLen of these characters
FileChars == { HASH, COLON, EQ, NL, SLASH, "f" }

\* structured family: files of at most MaxLines of these lines
PoolLines ==
    { << "f", ":", "k", "=", "a" >>,
      << "f", ":", "k", "=", "b" >>,
      << "f", ":", "s", "=", "a", "=", "b" >>,
      << "F", ":", "k", "=", "c" >>,
      << "#", "f", ":", "k", "=", "d" >>,
      << "f", ":", "k" >>,
      << "F" >>,
      << "f", ":", "=", "a" >>,
      << "f", ":", "/", "x", "=", "a" >>,
      << "f", ":", "/", "p", "/", "target", "/", "o", "/", "k", "=", "c" >>,
      << "f", ":", "/", "p", "/", ".env", "=", "f", ":", "k", "=", "e" >> }

\* the text of a file whose lines are ls, each ended by a line break
RECURSIVE Unlines(_)
Unlines(ls) == IF ls = << >> THEN << >> ELSE Head(ls) \o << NL >> \o Unlines(Tail(ls))

PoolFiles == { Unlines(ls) : ls \in StringsUpTo(PoolLines, MaxLines) }

\* path family: every OUT_DIR of one to MaxDepth of these components
PathComps == { TARGET, << "p" >>, << "target", "x" >> }
SmallFile == << "f", ":", "k", "=", "a", NL >>

\* what the build environment hands to one build script: the two
\* environment variables, where the project's .env is, and what it holds
Inputs ==
    \* exhaustive and structured files, the usual OUT_DIR
    { [pkg |-> Some(Pkg), out |-> Some(UsualOut), envAt |-> Some(UsualRoot), content |-> c] :
        c \in StringsUpTo(FileChars, MaxFileLen) \cup PoolFiles }
    \cup
    \* every OUT_DIR, the .env in any directory above it or nowhere
    UNION { { [pkg |-> Some(Pkg), out |-> Some(o), envAt |-> e, content |-> SmallFile] :
                e \in { Some(d) : d \in Prefixes(o) } \cup { None } } :
            o \in StringsUpTo(PathComps, MaxDepth) \ { << >> } }
    \cup
    \* an environment variable is not set
    { [pkg |-> None, out |-> Some(UsualOut), envAt |-> Some(UsualRoot), content |-> SmallFile],
      [pkg |-> Some(Pkg), out |-> None, envAt |-> Some(UsualRoot), content |-> SmallFile] }

\* ------------------------------------------------------------------- state

VARIABLES
    env,        \* the build environment: [pkg, out], each an Option
    dirs,       \* the directories of the file system
    fs,         \* the files of the file system: path -> contents
    pc,         \* where run() is: start, walk, read, loop, done
    pkg_name,   \* lib.rs:60
    out_dir,    \* lib.rs:65
    path,       \* lib.rs:68
    dotenv,     \* lib.rs:77
    lines,      \* the lines of the text read at lib.rs:79
    i,          \* how many lines the loop of lib.rs:79 has gone through
    cur,        \* the last line parsed and what the closure of lib.rs:86 returned: [n, res]
    result,     \* what run() returned: [kind, line]
    stdout,     \* the directives printed at lib.rs:109
    written,    \* history: the fs::write calls that succeeded, [line, path]
    runs,       \* history: which run of the build script this is
    fs0,        \* history: the files when this run started
    prev        \* history: the outcome of the run before, as an Option

vars == << env, dirs, fs, pc, pkg_name, out_dir, path, dotenv, lines, i, cur,
           result, stdout, written, runs, fs0, prev >>

Running == [kind |-> "Running", line |-> 0]
Ok == [kind |-> "Ok", line |-> 0]
VarError == [kind |-> "VarError", line |-> 0]
IoError == [kind |-> "IoError", line |-> 0]
\* ParseError { line }, lib.rs:114-117
ParseError(n) == [kind |-> "ParseError", line |-> n]

\* the files of the build environment inp describes
InitFs(inp) ==
    LET stale == IF inp.out = Some(UsualOut) THEN {StalePath} ELSE {}
        conf == IF inp.envAt = None THEN {} ELSE { Push(inp.envAt[1], DOTENV) }
    IN  [p \in stale \cup conf |-> IF p \in conf THEN inp.content ELSE StaleValue]

Init ==
    \E inp \in Inputs :
        /\ env = [pkg |-> inp.pkg, out |-> inp.out]
        /\ dirs = IF inp.out = None THEN { << >> } ELSE Prefixes(inp.out[1])
        /\ fs = InitFs(inp)
        /\ fs0 = InitFs(inp)
        /\ pc = "start"
        /\ pkg_name = << >>
        /\ out_dir = << >>
        /\ path = << >>
        /\ dotenv = << >>
        /\ lines = << >>
        /\ i = 0
        /\ cur = None
        /\ result = Running
        /\ stdout = << >>
        /\ written = << >>
        /\ runs = 1
        /\ prev = None

\* ----------------------------------------------------------------- actions

\* run() returns r
Return(r) == pc' = "done" /\ result' = r

\* lib.rs:60-68: both variables are read; a missing one is returned by `?`
ReadEnv ==
    /\ pc = "start"
    /\ IF env.pkg = None \/ env.out = None
       THEN /\ Return(VarError)
            /\ UNCHANGED << pkg_name, out_dir, path >>
       ELSE /\ pkg_name' = env.pkg[1]
            /\ out_dir' = env.out[1]
            /\ path' = env.out[1]
            /\ pc' = "walk"
            /\ UNCHANGED result
    /\ UNCHANGED << env, dirs, fs, dotenv, lines, i, cur, stdout, written, runs, fs0, prev >>

\* lib.rs:69-71: one turn of the loop; the condition holds, the body pops
WalkPop ==
    /\ pc = "walk"
    /\ FileName(path) # Some(TARGET)
    /\ path' = Pop(path)
    /\ UNCHANGED << env, dirs, fs, pc, pkg_name, out_dir, dotenv, lines, i, cur,
                    result, stdout, written, runs, fs0, prev >>

\* a mutant of Locate: the pop of lib.rs:74 is left out
LocateKeepsTarget ==
    /\ pc = "walk"
    /\ FileName(path) = Some(TARGET)
    /\ path' = Push(path, DOTENV)
    /\ dotenv' = Push(path, DOTENV)
    /\ pc' = "read"
    /\ UNCHANGED << env, dirs, fs, pkg_name, out_dir, lines, i, cur,
                    result, stdout, written, runs, fs0, prev >>

\* lib.rs:69, 73-77: the loop ends at `target`; its parent's .env is the file
Locate ==
    /\ pc = "walk"
    /\ FileName(path) = Some(TARGET)
    /\ path' = Push(Pop(path), DOTENV)
    /\ dotenv' = Push(Pop(path), DOTENV)
    /\ pc' = "read"
    /\ UNCHANGED << env, dirs, fs, pkg_name, out_dir, lines, i, cur,
                    result, stdout, written, runs, fs0, prev >>

\* a mutant of ReadFile: the directive of lib.rs:109 is printed before the loop
ReadFileThenPrint ==
    /\ pc = "read"
    /\ IF dotenv \in DOMAIN fs
       THEN /\ lines' = Lines(fs[dotenv])
            /\ i' = 0
            /\ pc' = "loop"
            /\ stdout' = Append(stdout, dotenv)
            /\ UNCHANGED result
       ELSE /\ Return(IoError)
            /\ UNCHANGED << lines, i, stdout >>
    /\ UNCHANGED << env, dirs, fs, pkg_name, out_dir, path, dotenv, cur,
                    written, runs, fs0, prev >>

\* lib.rs:79: fs::read_to_string(&dotenv)?.lines()
ReadFile ==
    /\ pc = "read"
    /\ IF dotenv \in DOMAIN fs
       THEN /\ lines' = Lines(fs[dotenv])
            /\ i' = 0
            /\ pc' = "loop"
            /\ UNCHANGED result
       ELSE /\ Return(IoError)
            /\ UNCHANGED << lines, i >>
    /\ UNCHANGED << env, dirs, fs, pkg_name, out_dir, path, dotenv, cur,
                    stdout, written, runs, fs0, prev >>

\* lib.rs:80-83: a comment line
SkipComment ==
    /\ pc = "loop"
    /\ i < Len(lines)
    /\ StartsWithHash(lines[i + 1])
    /\ i' = i + 1
    /\ UNCHANGED << env, dirs, fs, pc, pkg_name, out_dir, path, dotenv, lines, cur,
                    result, stdout, written, runs, fs0, prev >>

\* a mutant of ParseFail: the error carries the index i, counted from 0
ParseFailZeroBased ==
    /\ pc = "loop"
    /\ i < Len(lines)
    /\ ~StartsWithHash(lines[i + 1])
    /\ ParseLine(lines[i + 1]) = None
    /\ cur' = Some([n |-> i + 1, res |-> None])
    /\ Return(ParseError(i))
    /\ UNCHANGED << env, dirs, fs, pkg_name, out_dir, path, dotenv, lines, i,
                    stdout, written, runs, fs0, prev >>

\* lib.rs:86-99: the closure returns None; ParseError { line: i + 1 }
ParseFail ==
    /\ pc = "loop"
    /\ i < Len(lines)
    /\ ~StartsWithHash(lines[i + 1])
    /\ ParseLine(lines[i + 1]) = None
    /\ cur' = Some([n |-> i + 1, res |-> None])
    /\ Return(ParseError(i + 1))
    /\ UNCHANGED << env, dirs, fs, pkg_name, out_dir, path, dotenv, lines, i,
                    stdout, written, runs, fs0, prev >>

\* lib.rs:86-102: a line of another crate
SkipOther ==
    /\ pc = "loop"
    /\ i < Len(lines)
    /\ ~StartsWithHash(lines[i + 1])
    /\ ParseLine(lines[i + 1]) # None
    /\ ~IsForUs(ParseLine(lines[i + 1])[1].krate, pkg_name)
    /\ cur' = Some([n |-> i + 1, res |-> ParseLine(lines[i + 1])])
    /\ i' = i + 1
    /\ UNCHANGED << env, dirs, fs, pc, pkg_name, out_dir, path, dotenv, lines,
                    result, stdout, written, runs, fs0, prev >>

\* lib.rs:86-104: a line of this crate; fs::write(out_dir.join(key), value)?
WriteArtifact ==
    /\ pc = "loop"
    /\ i < Len(lines)
    /\ ~StartsWithHash(lines[i + 1])
    /\ ParseLine(lines[i + 1]) # None
    /\ LET e == ParseLine(lines[i + 1])[1]
           p == Join(out_dir, e.key)
       IN  /\ IsForUs(e.krate, pkg_name)
           /\ cur' = Some([n |-> i + 1, res |-> Some(e)])
           /\ IF WriteOk(dirs, e.key, p)
              THEN /\ fs' = FsWrite(fs, p, e.value)
                   /\ written' = Append(written, [line |-> i + 1, path |-> p])
                   /\ i' = i + 1
                   /\ UNCHANGED << pc, result >>
              ELSE /\ Return(IoError)
                   /\ UNCHANGED << fs, written, i >>
    /\ UNCHANGED << env, dirs, pkg_name, out_dir, path, dotenv, lines,
                    stdout, runs, fs0, prev >>

\* lib.rs:109-111: after the last line, the directive and Ok(())
Emit ==
    /\ pc = "loop"
    /\ i = Len(lines)
    /\ stdout' = Append(stdout, dotenv)
    /\ Return(Ok)
    /\ UNCHANGED << env, dirs, fs, pkg_name, out_dir, path, dotenv, lines, i, cur,
                    written, runs, fs0, prev >>

\* the build tool runs the build script again, in the same environment and
\* on the files the run before left; a new process starts with new locals
Rerun ==
    /\ pc = "done"
    /\ runs < MaxRuns
    /\ runs' = runs + 1
    /\ prev' = Some([result |-> result, fs |-> fs, fs0 |-> fs0, stdout |-> stdout])
    /\ fs0' = fs
    /\ pc' = "start"
    /\ pkg_name' = << >>
    /\ out_dir' = << >>
    /\ path' = << >>
    /\ dotenv' = << >>
    /\ lines' = << >>
    /\ i' = 0
    /\ cur' = None
    /\ result' = Running
    /\ stdout' = << >>
    /\ written' = << >>
    /\ UNCHANGED << env, dirs, fs >>

Next ==
    \/ ReadEnv
    \/ WalkPop
    \/ Locate
    \/ ReadFile
    \/ SkipComment
    \/ ParseFail
    \/ SkipOther
    \/ WriteArtifact
    \/ Emit
    \/ Rerun

Spec == Init /\ [][Next]_vars

\* ------------------------------------------------- what the claims speak of
\* The format of the shared configuration file, stated by position and not by
\* splitting, and the paths the claims name.

\* a comment line: its first character is '#'
IsCommentLine(l) == Len(l) >= 1 /\ Head(l) = "#"

\* a ':' with an '=' somewhere after it
WellFormed(l) ==
    \E a \in 1..Len(l) : \E b \in (a + 1)..Len(l) : l[a] = ":" /\ l[b] = "="

\* the position of the first ':' of a well-formed line
ColonAt(l) == CHOOSE a \in 1..Len(l) : l[a] = ":" /\ \A j \in 1..(a - 1) : l[j] # ":"

\* the position of the first '=' after the first ':'
EqAt(l) ==
    CHOOSE b \in (ColonAt(l) + 1)..Len(l) :
        l[b] = "=" /\ \A j \in (ColonAt(l) + 1)..(b - 1) : l[j] # "="

OwnerOf(l) == SubSeq(l, 1, ColonAt(l) - 1)
KeyOf(l) == SubSeq(l, ColonAt(l) + 1, EqAt(l) - 1)
ValueOf(l) == SubSeq(l, EqAt(l) + 1, Len(l))

\* line n of the file read is an entry owned by the package being built
OwnEntry(n) ==
    /\ n \in 1..Len(lines)
    /\ ~IsCommentLine(lines[n])
    /\ WellFormed(lines[n])
    /\ OwnerOf(lines[n]) = pkg_name

\* the file the key of own entry n names: OUT_DIR.join(key)
NamedFile(n) == Join(out_dir, KeyOf(lines[n]))

\* the last own entry among lines 1..upto that names file p, 0 when none does
LastOwnFor(p, upto) ==
    LET S == { m \in 1..upto : OwnEntry(m) /\ NamedFile(m) = p }
    IN  IF S = {} THEN 0 ELSE CHOOSE m \in S : \A k \in S : k <= m

\* the files are those the run started with, changed by exactly the writes
\* of the own entries among lines 1..upto
FsIsEffectsOf(upto) ==
    /\ DOMAIN fs = DOMAIN fs0 \cup { NamedFile(m) : m \in { k \in 1..upto : OwnEntry(k) } }
    /\ \A p \in DOMAIN fs :
          fs[p] = IF LastOwnFor(p, upto) = 0 THEN fs0[p]
                  ELSE ValueOf(lines[LastOwnFor(p, upto)])

\* non-comment line n has no ':' or no '=' after its first ':'
Malformed(n) ==
    n \in 1..Len(lines) /\ ~IsCommentLine(lines[n]) /\ ~WellFormed(lines[n])

\* line n is the first malformed line of the file read
FirstMalformed(n) == Malformed(n) /\ \A m \in 1..(n - 1) : ~Malformed(m)

\* some component of path o is named `target`
HasTarget(o) == \E k \in 1..Len(o) : o[k] = << "target" >>

\* the deepest component of o named `target`
DeepestTarget(o) ==
    CHOOSE k \in 1..Len(o) :
        o[k] = << "target" >> /\ \A j \in (k + 1)..Len(o) : o[j] # << "target" >>

\* <parent of the shared-output root>/.env
ExpectedDotenv(o) == Append(SubSeq(o, 1, DeepestTarget(o) - 1), << ".env" >>)

\* path a is a proper prefix of path b: b is inside directory a
Inside(a, b) == Len(b) > Len(a) /\ SubSeq(b, 1, Len(a)) = a

\* run() has got past the walk of lib.rs:69-77
Located == pc \in {"read", "loop"} \/ (pc = "done" /\ result.kind # "VarError")

\* ------------------------------------------------------------------ claims

\* C1 (as stated): after a successful run, for every entry owned by the
\* package, the file its key names holds that entry's value, also when
\* several own entries use the same key.
C1_EveryEntryHoldsItsValue ==
    (pc = "done" /\ result = Ok) =>
        \A n \in 1..Len(lines) :
            OwnEntry(n) => /\ NamedFile(n) \in DOMAIN fs
                           /\ fs[NamedFile(n)] = ValueOf(lines[n])

\* C1 (amended): after a successful run, for every entry owned by the
\* package, the file OUT_DIR.join(key) exists and holds the value of the last
\* own entry of the file read whose key names that same file.
C1_LastEntryWins ==
    (pc = "done" /\ result = Ok) =>
        \A n \in 1..Len(lines) :
            OwnEntry(n) =>
                /\ NamedFile(n) \in DOMAIN fs
                /\ LastOwnFor(NamedFile(n), Len(lines)) >= n
                /\ fs[NamedFile(n)] = ValueOf(lines[LastOwnFor(NamedFile(n), Len(lines))])

\* C1 witness: a successful run over two own entries with the same key and
\* different values
C1_Witness ==
    /\ pc = "done" /\ result = Ok
    /\ \E n \in 1..Len(lines) : \E m \in 1..Len(lines) :
          /\ n < m /\ OwnEntry(n) /\ OwnEntry(m)
          /\ KeyOf(lines[n]) = KeyOf(lines[m])
          /\ ValueOf(lines[n]) # ValueOf(lines[m])

\* C2 (as stated): when line n is the first malformed non-comment line,
\* run() fails with ParseError { line: n } and the files are exactly the
\* effects of lines 1..n-1.
C2_FirstMalformedLineFails ==
    \A n \in 1..Len(lines) :
        (pc = "done" /\ FirstMalformed(n)) =>
            /\ result = [kind |-> "ParseError", line |-> n]
            /\ FsIsEffectsOf(n - 1)

\* C2 (amended): when line n is the first malformed non-comment line, run()
\* fails with ParseError { line: n } and the files are exactly the effects of
\* lines 1..n-1, no line from n on having written anything; unless the
\* artifact write of an own entry m < n fails, and then run() fails with that
\* I/O error and the files are exactly the effects of lines 1..m-1.
C2_FirstMalformedOrEarlierWriteFails ==
    \A n \in 1..Len(lines) :
        (pc = "done" /\ FirstMalformed(n)) =>
            \/ /\ result = [kind |-> "ParseError", line |-> n]
               /\ FsIsEffectsOf(n - 1)
               /\ \A k \in 1..Len(written) : written[k].line < n
            \/ /\ result.kind = "IoError"
               /\ \E m \in 1..(n - 1) :
                     /\ OwnEntry(m)
                     /\ ~WriteOk(dirs, KeyOf(lines[m]), NamedFile(m))
                     /\ FsIsEffectsOf(m - 1)
                     /\ \A k \in 1..Len(written) : written[k].line < m

\* C2 witness: a parse error at line 3, after a comment and after an own
\* entry whose artifact stays on disk, the line being another package's
C2_Witness ==
    /\ pc = "done"
    /\ result = [kind |-> "ParseError", line |-> 3]
    /\ \E m \in 1..2 : IsCommentLine(lines[m])
    /\ \E m \in 1..2 : OwnEntry(m) /\ fs[NamedFile(m)] = ValueOf(lines[m])
                                  /\ NamedFile(m) \notin DOMAIN fs0
    /\ lines[3] # << >> /\ lines[3][1] # pkg_name[1]

\* the loop of lib.rs:69-71 is at a path its body cannot change
WalkStuck == pc = "walk" /\ FileName(path) # Some(TARGET) /\ Pop(path) = path

\* C3 (as stated): when no component of OUT_DIR is named `target`, run()
\* returns a lookup failure of its own kind, having read no file, and the walk
\* never turns on the spot.
C3_LookupFailure ==
    (env.pkg # None /\ env.out # None /\ ~HasTarget(env.out[1])) =>
        /\ ~WalkStuck
        /\ pc \notin {"read", "loop"}
        /\ pc = "done" => result.kind = "LookupError"

\* C4: for a non-comment line with a ':' followed later by an '=', the parser
\* yields owner, key and value with line = owner ':' key '=' value, no ':' in
\* the owner and no '=' in the key.
C4_ParsedParts ==
    cur # None =>
        LET l == lines[cur[1].n]
            r == cur[1].res
        IN  WellFormed(l) =>
              /\ r # None
              /\ l = r[1].krate \o << ":" >> \o r[1].key \o << "=" >> \o r[1].value
              /\ \A k \in 1..Len(r[1].krate) : r[1].krate[k] # ":"
              /\ \A k \in 1..Len(r[1].key) : r[1].key[k] # "="

\* C4 witness: a parsed line whose owner holds an '=' and whose value holds one
C4_Witness ==
    /\ cur # None
    /\ cur[1].res # None
    /\ \E k \in 1..Len(cur[1].res[1].krate) : cur[1].res[1].krate[k] = "="
    /\ \E k \in 1..Len(cur[1].res[1].value) : cur[1].res[1].value[k] = "="

\* C5: a run changes only files named by the key of a processed entry whose
\* owner is the package's name, whole and exact; no file is deleted, and any
\* other file keeps its contents.
C5_OnlyOwnKeysChange ==
    /\ DOMAIN fs0 \subseteq DOMAIN fs
    /\ \A p \in DOMAIN fs :
          (p \notin DOMAIN fs0 \/ fs[p] # fs0[p]) =>
              \E n \in 1..Len(lines) : n <= i /\ OwnEntry(n) /\ NamedFile(n) = p
    /\ \A k \in 1..Len(written) :
          /\ written[k].line <= i
          /\ OwnEntry(written[k].line)
          /\ NamedFile(written[k].line) = written[k].path

\* C5 witness: a finished run that wrote an artifact, went past an entry of
\* another owner and left the stale artifact as it was
C5_Witness ==
    /\ pc = "done" /\ result = Ok
    /\ written # << >>
    /\ \E n \in 1..Len(lines) :
          ~IsCommentLine(lines[n]) /\ WellFormed(lines[n]) /\ OwnerOf(lines[n]) # pkg_name
    /\ StalePath \in DOMAIN fs /\ fs[StalePath] = StaleValue

\* C6: a line whose first character is '#' is never parsed, writes nothing and
\* is never the line of a parse error, and it counts: a parse error and a
\* write carry the number of their line among all lines.
C6_CommentsSkipped ==
    /\ \A n \in 1..Len(lines) :
          IsCommentLine(lines[n]) =>
              /\ result # [kind |-> "ParseError", line |-> n]
              /\ \A k \in 1..Len(written) : written[k].line # n
              /\ (cur # None => cur[1].n # n)
    /\ result.kind = "ParseError" => Malformed(result.line)
    /\ \A k \in 1..Len(written) : OwnEntry(written[k].line)

\* C6 witness: a parse error at line 2 after a comment that holds no delimiter
C6_Witness ==
    /\ pc = "done"
    /\ result = [kind |-> "ParseError", line |-> 2]
    /\ IsCommentLine(lines[1]) /\ ~WellFormed(lines[1])

\* C7: the directive is printed once, naming the configuration file, when
\* every line has been gone through and every write is done, and only by a
\* run that returns Ok.
C7_DirectiveOnlyOnSuccess ==
    /\ pc # "done" => stdout = << >>
    /\ (pc = "done" /\ result # Ok) => stdout = << >>
    /\ (pc = "done" /\ result = Ok) =>
          /\ stdout = << ExpectedDotenv(out_dir) >>
          /\ i = Len(lines)
          /\ Len(written) = Cardinality({ n \in 1..Len(lines) : OwnEntry(n) })

\* C7 witness: a successful run that wrote two artifacts and printed
C7_Witness ==
    pc = "done" /\ result = Ok /\ Len(written) >= 2 /\ Len(stdout) = 1

\* C8 (as stated): every file run() writes is inside OUT_DIR, and none is the
\* shared configuration file.
C8_WritesOnlyInsideOutDir ==
    \A k \in 1..Len(written) :
        /\ Inside(out_dir, written[k].path)
        /\ written[k].path # dotenv

\* the .env files are the same at the start of this run and of the run before
SameConfig ==
    \A p \in DOMAIN fs0 \cup DOMAIN prev[1].fs0 :
        p[Len(p)] = << ".env" >> =>
            /\ p \in DOMAIN fs0 /\ p \in DOMAIN prev[1].fs0
            /\ fs0[p] = prev[1].fs0[p]

\* C9: a run that follows a run, the configuration file, the package name and
\* OUT_DIR being the same, returns what that run returned and leaves the
\* files as that run left them.
C9_Idempotent ==
    (pc = "done" /\ prev # None /\ SameConfig) =>
        /\ result = prev[1].result
        /\ fs = prev[1].fs
        /\ stdout = prev[1].stdout

\* C9 witness: a second successful run over a file with own entries that the
\* first run changed the output directory with
C9_Witness ==
    /\ pc = "done" /\ prev # None /\ SameConfig
    /\ result = Ok /\ written # << >>
    /\ prev[1].fs # prev[1].fs0

\* C10: when OUT_DIR has a component named `target`, the walk stays on
\* OUT_DIR's prefixes down to the deepest such component, and the located
\* path is <parent of that component>/.env, whether or not that file exists.
C10_LocatedPath ==
    /\ (pc = "walk" /\ HasTarget(out_dir)) =>
          /\ Len(path) >= DeepestTarget(out_dir)
          /\ path = SubSeq(out_dir, 1, Len(path))
    /\ Located => /\ HasTarget(out_dir)
                  /\ dotenv = ExpectedDotenv(out_dir)
    /\ (env.pkg # None /\ env.out # None /\ HasTarget(env.out[1]) /\ pc = "done")
          => dotenv = ExpectedDotenv(env.out[1])

\* C10 witness: the walk went up from below the deeper of two `target`
\* components and located a file that does not exist
C10_Witness ==
    /\ pc = "read"
    /\ dotenv \notin DOMAIN fs
    /\ \E a \in 1..Len(out_dir) : \E b \in 1..Len(out_dir) :
          a < b /\ b < Len(out_dir) /\ out_dir[a] = TARGET /\ out_dir[b] = TARGET

====
